---- MODULE Spec2Model ----
(***************************************************************************)
(* Model of the drumkit intake endpoint (POST /drumkits) of main.py.       *)
(*                                                                         *)
(* Money amounts are fixed-point integers in cents (1.0 == 100).  Times    *)
(* are whole seconds; a datetime is its wall-clock fields (seconds since   *)
(* an origin) plus its UTC offset in seconds, or None for a naive one.     *)
(* A release_at string is kept as its two lexical parts: the date/time     *)
(* text (well-formed or not, with the wall-clock value it spells) and the  *)
(* zone suffix ("", "Z", "+HH:MM" or "+HH:MM:SS").                         *)
(***************************************************************************)
EXTENDS Integers, Sequences, FiniteSets, TLC

VARIABLES clock, stored, pc, payload, now, outcome, calls, response

vars == <<clock, stored, pc, payload, now, outcome, calls, response>>

\* ---------------------------------------------------------------- bounds
MaxStored == 1
MaxClock == 130

\* ------------------------------------------------------ program constants
MaxTags == 3
MaxTagLen == 15
MaxOfferPercent == 90
MinPriceOriginal == 100
MaxPriceOriginal == 100000
FieldMaxOfferPercent == 90
FieldMinOfferFixed == 0

\* ------------------------------------------------------------ environment
StartClock == 70
TickSeconds == 60

None == <<>>
Some(v) == <<v>>
NoPayload == [absent |-> TRUE]

TagLists ==
    { <<"kick", "snare", "fifteen-chars-x">>,
      <<"a", "b", "c", "d">>,
      <<"sixteen-chars-xx">> }

\* release_at strings offered by clients
ReleaseStrings ==
    { [iso |-> FALSE, wall |-> 0,    zone |-> "Z"],          \* not a timestamp
      [iso |-> TRUE,  wall |-> 120,  zone |-> ""],           \* no zone offset
      [iso |-> TRUE,  wall |-> 59,   zone |-> "Z"],          \* minute 0
      [iso |-> TRUE,  wall |-> 65,   zone |-> "Z"],          \* minute 1, second 5
      [iso |-> TRUE,  wall |-> 120,  zone |-> "+00:00"],     \* minute 2
      [iso |-> TRUE,  wall |-> 3665, zone |-> "+01:00"],     \* minute 1 in UTC
      [iso |-> TRUE,  wall |-> 105,  zone |-> "+00:00:30"] } \* 00:01:15 UTC

\* request bodies as decoded from JSON, before structural validation; the
\* second set holds bodies whose offer_percent is out of the schema's range
Requests ==
    [ tags           : TagLists,
      price_original : {100, 10000},
      is_free        : BOOLEAN,
      offer_fixed    : {None, Some(2500), Some(10000)},
      offer_percent  : {None, Some(90)},
      release_at     : ReleaseStrings ]
    \cup
    [ tags           : {<<"kick", "snare", "fifteen-chars-x">>},
      price_original : {100, 10000},
      is_free        : BOOLEAN,
      offer_fixed    : {None},
      offer_percent  : {Some(95)},
      release_at     : ReleaseStrings ]

\* ------------------------------------------------- DrumkitCreate (schema)
\* variant: the schema bounds offer_percent by 100 instead of 90
DrumkitCreate_Percent100(b) ==
    /\ b.price_original >= MinPriceOriginal
    /\ b.price_original <= MaxPriceOriginal
    /\ (b.offer_fixed # None => b.offer_fixed[1] >= FieldMinOfferFixed)
    /\ (b.offer_percent # None =>
            /\ b.offer_percent[1] >= 0
            /\ b.offer_percent[1] <= 100)

DrumkitCreate(b) ==
    /\ b.price_original >= MinPriceOriginal
    /\ b.price_original <= MaxPriceOriginal
    /\ (b.offer_fixed # None => b.offer_fixed[1] >= FieldMinOfferFixed)
    /\ (b.offer_percent # None =>
            /\ b.offer_percent[1] >= 0
            /\ b.offer_percent[1] <= FieldMaxOfferPercent)

\* ------------------------------------------------------------- datetimes
Replace(s) ==
    IF s.zone = "Z" THEN [s EXCEPT !.zone = "+00:00"] ELSE s

ZoneOffset(z) ==
    CASE z = ""          -> None
      [] z = "+00:00"    -> Some(0)
      [] z = "+01:00"    -> Some(3600)
      [] z = "+00:00:30" -> Some(30)

\* datetime.fromisoformat: [ok |-> FALSE] stands for ValueError
Fromisoformat(s) ==
    IF ~s.iso \/ s.zone = "Z"
    THEN [ok |-> FALSE]
    ELSE [ok |-> TRUE, wall |-> s.wall, utcoffset |-> ZoneOffset(s.zone)]

NowUtc(t) == [ok |-> TRUE, wall |-> t, utcoffset |-> Some(0)]

\* dt.replace(second=0, microsecond=0): zeroes the fields, keeps tzinfo
ReplaceSecond0(dt) == [dt EXCEPT !.wall = dt.wall - (dt.wall % 60)]

Comparable(a, b) == (a.utcoffset = None) = (b.utcoffset = None)

Instant(dt) == IF dt.utcoffset = None THEN dt.wall ELSE dt.wall - dt.utcoffset[1]

\* variant: the comparison is <= instead of <
DtLess_OrEqual(a, b) == Instant(a) <= Instant(b)

\* a < b on datetimes; only defined when Comparable(a, b)
DtLess(a, b) == Instant(a) < Instant(b)

\* ------------------------------------------------------------ the handler
\* variant: only the number of tags is checked
TagsInvalid_CountOnly(p) ==
    Len(p.tags) > MaxTags

TagsInvalid(p) ==
    \/ Len(p.tags) > MaxTags
    \/ \E i \in 1..Len(p.tags) : Len(p.tags[i]) > MaxTagLen

Max(a, b) == IF a >= b THEN a ELSE b

\* variant: the comparison is > instead of >=
OfferFixedTooBig_Strict(p, offer_fixed) ==
    offer_fixed # None /\ offer_fixed[1] > p.price_original

OfferFixedTooBig(p, offer_fixed) ==
    offer_fixed # None /\ offer_fixed[1] >= p.price_original

OfferPercentTooBig(offer_percent) ==
    offer_percent # None /\ offer_percent[1] > MaxOfferPercent

\* variant: the percentage takes precedence over the fixed offer
Discounted_PercentFirst(p, offer_fixed, offer_percent) ==
    IF offer_percent # None
    THEN (p.price_original * (100 - offer_percent[1])) \div 100
    ELSE IF offer_fixed # None
         THEN p.price_original - offer_fixed[1]
         ELSE p.price_original

Discounted(p, offer_fixed, offer_percent) ==
    IF offer_fixed # None
    THEN p.price_original - offer_fixed[1]
    ELSE IF offer_percent # None
         THEN (p.price_original * (100 - offer_percent[1])) \div 100
         ELSE p.price_original

\* variant: the offers are validated and kept before is_free is looked at
Pricing_FreeKeepsOffers(p) ==
    IF OfferFixedTooBig(p, p.offer_fixed)
    THEN [err |-> "OfferExceedsPrice"]
    ELSE IF OfferPercentTooBig(p.offer_percent)
         THEN [err |-> "OfferPercentTooHigh"]
         ELSE [err |-> "",
               final_price |-> IF p.is_free THEN 0
                               ELSE Max(Discounted(p, p.offer_fixed, p.offer_percent), 0),
               offer_fixed |-> p.offer_fixed,
               offer_percent |-> p.offer_percent]

\* variant: the fixed offer is not compared with the original price
Pricing_NoFixedCheck(p) ==
    IF p.is_free
    THEN [err |-> "", final_price |-> 0, offer_fixed |-> None, offer_percent |-> None]
    ELSE IF OfferPercentTooBig(p.offer_percent)
         THEN [err |-> "OfferPercentTooHigh"]
         ELSE [err |-> "",
               final_price |-> Max(Discounted(p, p.offer_fixed, p.offer_percent), 0),
               offer_fixed |-> p.offer_fixed,
               offer_percent |-> p.offer_percent]

\* lines 95-112: err is "" when the branch falls through
Pricing(p) ==
    IF p.is_free
    THEN [err |-> "", final_price |-> 0, offer_fixed |-> None, offer_percent |-> None]
    ELSE IF OfferFixedTooBig(p, p.offer_fixed)
         THEN [err |-> "OfferExceedsPrice"]
         ELSE IF OfferPercentTooBig(p.offer_percent)
              THEN [err |-> "OfferPercentTooHigh"]
              ELSE [err |-> "",
                    final_price |-> Max(Discounted(p, p.offer_fixed, p.offer_percent), 0),
                    offer_fixed |-> p.offer_fixed,
                    offer_percent |-> p.offer_percent]

\* lines 115-122: err is "" when the date passes; now is the handler's
\* local of that name, None while line 117 has not run
ReleaseCheck(p, t) ==
    LET client_dt == Fromisoformat(Replace(p.release_at)) IN
    IF ~client_dt.ok
    THEN [err |-> "InvalidReleaseDate", now |-> None]
    ELSE IF ~Comparable(client_dt, NowUtc(t))
         THEN [err |-> "TypeError", now |-> Some(t)]
         ELSE IF DtLess(ReplaceSecond0(client_dt), ReplaceSecond0(NowUtc(t)))
              THEN [err |-> "ReleaseDateInPast", now |-> Some(t)]
              ELSE [err |-> "", now |-> Some(t), client_dt |-> client_dt]

Drumkit(p, pr, client_dt) ==
    [ release_at     |-> client_dt,
      tags           |-> p.tags,
      price_original |-> p.price_original,
      is_free        |-> p.is_free,
      offer_fixed    |-> pr.offer_fixed,
      offer_percent  |-> pr.offer_percent,
      price_final    |-> pr.final_price ]

\* variant: the release date is validated before the pricing branch
Handle_DateFirst(p, t) ==
    IF TagsInvalid(p)
    THEN [err |-> "InvalidTags", now |-> None]
    ELSE LET rc == ReleaseCheck(p, t) IN
         IF rc.err # ""
         THEN [err |-> rc.err, now |-> rc.now]
         ELSE LET pr == Pricing(p) IN
              IF pr.err # ""
              THEN [err |-> pr.err, now |-> rc.now]
              ELSE [err |-> "", now |-> rc.now,
                    doc |-> Drumkit(p, pr, rc.client_dt)]

\* outcome of create_drumkit(p) at time t: the error raised, or the record
Handle(p, t) ==
    IF TagsInvalid(p)
    THEN [err |-> "InvalidTags", now |-> None]
    ELSE LET pr == Pricing(p) IN
         IF pr.err # ""
         THEN [err |-> pr.err, now |-> None]
         ELSE LET rc == ReleaseCheck(p, t) IN
              IF rc.err # ""
              THEN [err |-> rc.err, now |-> rc.now]
              ELSE [err |-> "", now |-> rc.now,
                    doc |-> Drumkit(p, pr, rc.client_dt)]

\* database.create_document: insert and return the new identifier
create_document(collection_name, data) ==
    [docs |-> Append(stored, data), id |-> Len(stored) + 1]

\* ---------------------------------------------------------------- actions
Init ==
    /\ clock = StartClock
    /\ stored = <<>>
    /\ pc = "idle"
    /\ payload = NoPayload
    /\ now = None
    /\ outcome = "none"
    /\ calls = <<>>
    /\ response = 0

\* the framework decodes a body and validates it against DrumkitCreate
Receive ==
    /\ pc = "idle"
    /\ Len(stored) < MaxStored
    /\ \E b \in Requests :
          /\ payload' = b
          /\ IF DrumkitCreate(b)
             THEN pc' = "handling" /\ outcome' = "pending"
             ELSE pc' = "idle" /\ outcome' = "Unprocessable"
    /\ now' = None
    /\ calls' = <<>>
    /\ response' = 0
    /\ UNCHANGED <<clock, stored>>

\* variant: the document is inserted when the release time has passed
CreateDrumkit_InsertPast ==
    /\ pc = "handling"
    /\ LET r == Handle(payload, clock) IN
       /\ now' = r.now
       /\ IF r.err = "ReleaseDateInPast"
          THEN LET ins == create_document("drumkit", Drumkit(payload, Pricing(payload),
                              Fromisoformat(Replace(payload.release_at)))) IN
               /\ outcome' = r.err
               /\ stored' = ins.docs
               /\ calls' = Append(calls, <<"drumkit", ins.docs[Len(ins.docs)]>>)
               /\ response' = 0
          ELSE IF r.err # ""
          THEN /\ outcome' = r.err
               /\ UNCHANGED <<stored, calls, response>>
          ELSE LET ins == create_document("drumkit", r.doc) IN
               /\ outcome' = "Accepted"
               /\ stored' = ins.docs
               /\ calls' = Append(calls, <<"drumkit", r.doc>>)
               /\ response' = ins.id
    /\ pc' = "idle"
    /\ UNCHANGED <<clock, payload>>

CreateDrumkit ==
    /\ pc = "handling"
    /\ LET r == Handle(payload, clock) IN
       /\ now' = r.now
       /\ IF r.err # ""
          THEN /\ outcome' = r.err
               /\ UNCHANGED <<stored, calls, response>>
          ELSE LET ins == create_document("drumkit", r.doc) IN
               /\ outcome' = "Accepted"
               /\ stored' = ins.docs
               /\ calls' = Append(calls, <<"drumkit", r.doc>>)
               /\ response' = ins.id
    /\ pc' = "idle"
    /\ UNCHANGED <<clock, payload>>

Tick ==
    /\ clock < MaxClock
    /\ clock' = clock + TickSeconds
    /\ UNCHANGED <<stored, pc, payload, now, outcome, calls, response>>

Next == Receive \/ CreateDrumkit \/ Tick

Spec == Init /\ [][Next]_vars

\* ------------------------------------------------------------- properties
Rejections ==
    { "InvalidTags", "OfferExceedsPrice", "OfferPercentTooHigh",
      "InvalidReleaseDate", "ReleaseDateInPast" }

DrumkitFields ==
    { "release_at", "tags", "price_original", "is_free",
      "offer_fixed", "offer_percent", "price_final" }

\* create_drumkit has run on payload and outcome is its result
Handled == pc = "idle" /\ outcome \notin {"none", "Unprocessable"}

\* the step in which create_drumkit runs
HandlerStep == pc = "handling" /\ pc' = "idle"

LastDoc == stored[Len(stored)]

TagsBad(p) ==
    Len(p.tags) > 3 \/ \E i \in DOMAIN p.tags : Len(p.tags[i]) > 15

FixedExceeds(p) ==
    ~p.is_free /\ p.offer_fixed # None /\ p.offer_fixed[1] >= p.price_original

PassesTagsAndPricing(p) == ~TagsBad(p) /\ ~FixedExceeds(p)

\* the string spells a timestamp that carries a zone
ParsesAware(s) == s.iso /\ s.zone # ""

OffsetSeconds(z) ==
    IF z = "+01:00" THEN 3600 ELSE IF z = "+00:00:30" THEN 30 ELSE 0

UtcInstant(s) == s.wall - OffsetSeconds(s.zone)

Minute(t) == t \div 60

\* C1: create_document("drumkit", record) is called exactly once by an
\* accepted submission and never otherwise; a submission that is not
\* accepted leaves the stored records unchanged, and the record inserted is
\* complete.
C1_InsertExactlyOnAccept ==
    [][HandlerStep =>
         /\ (outcome' # "Accepted" => stored' = stored /\ calls' = <<>>)
         /\ (outcome' = "Accepted" =>
                /\ Len(calls') = 1
                /\ calls'[1][1] = "drumkit"
                /\ DOMAIN calls'[1][2] = DrumkitFields
                /\ stored' = Append(stored, calls'[1][2]))]_vars

C1_Witness ==
    /\ Handled
    /\ outcome = "Accepted"
    /\ Len(calls) = 1
    /\ stored = <<calls[1][2]>>

\* C2: a submission that passed the tag and pricing checks and whose
\* release_at does not parse as an aware timestamp (a timestamp without zone
\* offset included) ends in InvalidReleaseDate and nothing is stored; a
\* trailing Z is read as UTC.
C2_UnparsableIsInvalidReleaseDate ==
    (Handled /\ PassesTagsAndPricing(payload)) =>
        /\ (~ParsesAware(payload.release_at) =>
                outcome = "InvalidReleaseDate" /\ calls = <<>>)
        /\ (payload.release_at.iso /\ payload.release_at.zone = "Z" =>
                outcome \in {"Accepted", "ReleaseDateInPast"})

\* C3: a free submission is never rejected with OfferExceedsPrice, and its
\* stored record has price_final 0 and no offer_fixed and no offer_percent.
C3_FreeIsZeroNoOffers ==
    (Handled /\ payload.is_free) =>
        /\ outcome # "OfferExceedsPrice"
        /\ (outcome = "Accepted" =>
                /\ LastDoc.is_free
                /\ LastDoc.price_final = 0
                /\ LastDoc.offer_fixed = None
                /\ LastDoc.offer_percent = None
                /\ calls[1][2] = LastDoc)

C3_Witness ==
    /\ Handled
    /\ payload.is_free
    /\ payload.offer_fixed = Some(10000)
    /\ payload.price_original = 100
    /\ payload.offer_percent = Some(90)
    /\ outcome = "Accepted"

\* C4: an accepted non-free submission is stored with price_final equal to
\* price_original - offer_fixed when offer_fixed is present, else to
\* price_original * (1 - offer_percent/100) when offer_percent is present,
\* else to price_original, and never below 0.
C4_FinalPriceFormula ==
    (Handled /\ ~payload.is_free /\ outcome = "Accepted") =>
        LET p == payload
            f == LastDoc.price_final IN
        /\ (p.offer_fixed # None =>
                f = Max(p.price_original - p.offer_fixed[1], 0))
        /\ (p.offer_fixed = None /\ p.offer_percent # None =>
                100 * f = Max(p.price_original * (100 - p.offer_percent[1]), 0))
        /\ (p.offer_fixed = None /\ p.offer_percent = None =>
                f = p.price_original)

C4_Witness ==
    /\ Handled
    /\ ~payload.is_free
    /\ outcome = "Accepted"
    /\ payload.price_original = 10000
    /\ payload.offer_fixed = Some(2500)
    /\ payload.offer_percent = Some(90)
    /\ LastDoc.price_final = 7500

\* C5: a submission with more than 3 tags or a tag longer than 15
\* characters is rejected with InvalidTags and nothing is stored, whatever
\* its pricing fields and release_at.
C5_BadTagsRejected ==
    [][(HandlerStep /\ TagsBad(payload)) =>
         /\ outcome' = "InvalidTags"
         /\ stored' = stored
         /\ calls' = <<>>]_vars

C5_Witness ==
    /\ Handled
    /\ payload.tags = <<"sixteen-chars-xx">>
    /\ payload.is_free
    /\ ~payload.release_at.iso
    /\ outcome = "InvalidTags"
    /\ stored = <<>>

\* C6 as stated: every non-free submission with offer_fixed >= price_original
\* is rejected with OfferExceedsPrice.
C6_Original ==
    (Handled /\ FixedExceeds(payload)) => outcome = "OfferExceedsPrice"

\* C6: every non-free submission with valid tags and
\* offer_fixed >= price_original is rejected with OfferExceedsPrice.
C6_ExceedsRejectedWhenTagsValid ==
    (Handled /\ ~TagsBad(payload) /\ FixedExceeds(payload)) =>
        outcome = "OfferExceedsPrice" /\ calls = <<>>

C6_Witness ==
    /\ Handled
    /\ ~TagsBad(payload)
    /\ ~payload.is_free
    /\ payload.offer_fixed = Some(payload.price_original)
    /\ ParsesAware(payload.release_at)
    /\ outcome = "OfferExceedsPrice"

C8_PercentTooHighUnreachable ==
    /\ outcome # "OfferPercentTooHigh"
    /\ (pc = "handling" =>
            \/ payload.offer_percent = None
            \/ payload.offer_percent[1] \in 0..90)

C8_Witness ==
    /\ Handled
    /\ ~TagsBad(payload)
    /\ ~payload.is_free
    /\ payload.offer_fixed = None
    /\ payload.offer_percent = Some(90)
    /\ payload.price_original = 10000
    /\ outcome = "Accepted"

\* C9: the first failing step decides the reason: bad tags give InvalidTags
\* whatever else is wrong, an excessive fixed offer with valid tags gives
\* OfferExceedsPrice whatever the release date, and a release-date reason is
\* reported only when tags and pricing passed; a rejection stores nothing.
C9_FirstFailureWins ==
    Handled =>
        /\ (TagsBad(payload) => outcome = "InvalidTags")
        /\ (~TagsBad(payload) /\ FixedExceeds(payload) =>
                outcome = "OfferExceedsPrice")
        /\ (outcome \in {"InvalidReleaseDate", "ReleaseDateInPast"} =>
                PassesTagsAndPricing(payload))
        /\ (outcome \in Rejections => calls = <<>>)

C9_Witness ==
    /\ Handled
    /\ ~TagsBad(payload)
    /\ FixedExceeds(payload)
    /\ ~payload.release_at.iso
    /\ outcome = "OfferExceedsPrice"

\* C10: in every stored record price_final is 0 exactly when is_free; in a
\* non-free record price_final is positive, is at most price_original, and
\* is the discounted price itself (the clamp at 0 changes nothing).
C10_StoredPriceInvariant ==
    \A i \in DOMAIN stored :
        LET d == stored[i]
            raw == IF d.offer_fixed # None
                   THEN 100 * (d.price_original - d.offer_fixed[1])
                   ELSE IF d.offer_percent # None
                        THEN d.price_original * (100 - d.offer_percent[1])
                        ELSE 100 * d.price_original IN
        /\ (d.price_final = 0 <=> d.is_free)
        /\ (~d.is_free =>
                /\ d.price_final > 0
                /\ d.price_final <= d.price_original
                /\ 100 * d.price_final = raw)

C10_Witness ==
    /\ Handled
    /\ outcome = "Accepted"
    /\ ~LastDoc.is_free
    /\ LastDoc.price_original = 100
    /\ LastDoc.offer_percent = Some(90)
    /\ LastDoc.price_final = 10

====
